---------------------------- MODULE Spec2Model ----------------------------
(***************************************************************************)
(* Model of the synthetic intent-dataset generator (src/unnamed/part_000): *)
(* the validator applied to an oracle payload (generateExample and its     *)
(* helpers), the worker pool of runJobs and the partition loop of main.    *)
(*                                                                         *)
(* Strings are sequences of one-character strings, so that trim,           *)
(* startsWith, endsWith, slice and indexOf are computed as the code        *)
(* computes them.                                                          *)
(***************************************************************************)
EXTENDS Integers, Sequences, FiniteSets, TLC

(***************************************************************************)
(* Bounds of the model.                                                    *)
(***************************************************************************)
\* longest job sequence handed to runJobs
MaxJobs == 4
\* largest value of GENERATION_CONCURRENCY drawn as an input (from 0: the variable
\* is read with Number() and not validated, and "" or "0" give 0)
MaxConcurrency == 2

\* the largest --rows= value tried
MaxRows == 13

\* Math.random() is drawn from the multiples of 1 / RandomGrain below 1
RandomGrain == 2

\* the per-action counts of the default partitions (200 and 20 in the source)
TrainPerAction == 1

TestPerAction == 1

\* the longest message sequence handed to mergeMessages
MaxMessages == 3

(***************************************************************************)
(* Program constants.                                                      *)
(***************************************************************************)
MAX_ATTEMPTS == 4

\* the base of the backoff, in ms: `500 * attempt`
BackoffBase == 500

\* ACTIONS of the source (ACTIONS is a reserved word here)
Actions == <<"reply", "start_task", "update_task", "cancel_task", "noop">>

ActionKind == {Actions[i] : i \in 1..Len(Actions)}

(***************************************************************************)
(* JavaScript string primitives on character sequences.                    *)
(***************************************************************************)
IsSpace(c) == c \in {" ", "\n"}

RECURSIVE TrimStart(_)
TrimStart(s) ==
    IF s # <<>> /\ IsSpace(Head(s)) THEN TrimStart(Tail(s)) ELSE s

RECURSIVE TrimEnd(_)
TrimEnd(s) ==
    IF s # <<>> /\ IsSpace(s[Len(s)]) THEN TrimEnd(SubSeq(s, 1, Len(s) - 1)) ELSE s

\* String.prototype.trim
Trim(s) == TrimEnd(TrimStart(s))

\* String.prototype.startsWith
StartsWith(s, p) == Len(s) >= Len(p) /\ SubSeq(s, 1, Len(p)) = p

\* String.prototype.endsWith
EndsWith(s, p) == Len(s) >= Len(p) /\ SubSeq(s, Len(s) - Len(p) + 1, Len(s)) = p

\* String.prototype.slice(start, end) with 0-based start >= 0; a negative end
\* counts from the end of the string
Slice(s, start, end) ==
    LET e == IF end < 0 THEN (IF Len(s) + end < 0 THEN 0 ELSE Len(s) + end)
             ELSE (IF end > Len(s) THEN Len(s) ELSE end)
        b == IF start > Len(s) THEN Len(s) ELSE start
    IN  IF b >= e THEN <<>> ELSE SubSeq(s, b + 1, e)

\* String.prototype.indexOf for a single character: 0-based, -1 when absent
IndexOf(s, c) ==
    IF \E i \in 1..Len(s) : s[i] = c
    THEN (CHOOSE i \in 1..Len(s) : s[i] = c /\ \A j \in 1..(i - 1) : s[j] # c) - 1
    ELSE -1

(***************************************************************************)
(* Parsed JSON values: a string, an array, an object (a function from its  *)
(* keys to values), or undefined/null, which `??` skips.                   *)
(***************************************************************************)
JUndef == [type |-> "undefined"]

JNull == [type |-> "null"]

JStr(s) == [type |-> "string", str |-> s]

JArr(items) == [type |-> "array", items |-> items]

JObj(fields) == [type |-> "object", fields |-> fields]

\* property read on a parsed JSON object: undefined when the key is absent
Get(obj, key) ==
    IF obj.type = "object" /\ key \in DOMAIN obj.fields THEN obj.fields[key] ELSE JUndef

\* a ?? b ?? c ?? dflt, then String(...): the first value that is neither
\* undefined nor null, as a string
Coalesce(vals, dflt) ==
    IF \E i \in 1..Len(vals) : vals[i] # JUndef
    THEN vals[CHOOSE i \in 1..Len(vals) :
                 vals[i] # JUndef /\ \A j \in 1..(i - 1) : vals[j] = JUndef].str
    ELSE dflt

(***************************************************************************)
(* String literals of the source.                                          *)
(***************************************************************************)
ReplyPrefix == <<"r","e","p","l","y","(">>
StartTaskPrefix == <<"s","t","a","r","t","_","t","a","s","k","(">>
UpdateTaskPrefix == <<"u","p","d","a","t","e","_","t","a","s","k","(">>
CancelTaskPrefix == <<"c","a","n","c","e","l","_","t","a","s","k","(">>
NoopLiteral == <<"n","o","o","p">>
CloseParen == <<")">>
TaskTemp == <<"t","a","s","k","-","t","e","m","p">>
PendingSummary == <<"P","e","n","d","i","n","g"," ","s","u","m","m","a","r","y">>
AwaitingDetails == <<"A","w","a","i","t","i","n","g"," ","d","e","t","a","i","l","s">>

(***************************************************************************)
(* ACTION_GUIDANCE[action].validation                                      *)
(***************************************************************************)
\* variant: the shape is checked, the id is not looked up
NoIdCheckValidation(final, tasks, prefix) ==
    /\ StartsWith(final, prefix)
    /\ EndsWith(final, CloseParen)
    /\ IndexOf(Slice(final, Len(prefix), -1), ",") # -1

\* update_task and cancel_task share this body, up to the prefix
TaskRefValidation(final, tasks, prefix) ==
    IF ~StartsWith(final, prefix) \/ ~EndsWith(final, CloseParen) THEN FALSE
    ELSE LET inside == Slice(final, Len(prefix), -1)
             commaIndex == IndexOf(inside, ",")
         IN  IF commaIndex = -1 THEN FALSE
             ELSE LET taskId == Trim(Slice(inside, 0, commaIndex))
                  IN  \E k \in 1..Len(tasks) : tasks[k].id = taskId

\* variant: any command of the right shape passes, whatever its verb
ShapeOnlyValidation(action, final, tasks) ==
    final = NoopLiteral \/ EndsWith(final, CloseParen)

Validation(action, final, tasks) ==
    CASE action = "reply" -> StartsWith(final, ReplyPrefix) /\ EndsWith(final, CloseParen)
      [] action = "start_task" ->
             StartsWith(final, StartTaskPrefix) /\ EndsWith(final, CloseParen)
      [] action = "update_task" -> TaskRefValidation(final, tasks, UpdateTaskPrefix)
      [] action = "cancel_task" -> TaskRefValidation(final, tasks, CancelTaskPrefix)
      [] action = "noop" -> final = NoopLiteral

(***************************************************************************)
(* A function that may throw returns Ok(value) or Err(message).            *)
(***************************************************************************)
Ok(v) == [ok |-> TRUE, value |-> v]

Err(msg) == [ok |-> FALSE, error |-> msg]

(***************************************************************************)
(* The validator.                                                          *)
(***************************************************************************)
\* the callback of tasks.map in sanitizeTasks
sanitizeTask(task) ==
    IF task.type \notin {"object", "array"} THEN Err("Task is invalid")
    ELSE LET id == Trim(Coalesce(<<Get(task, "id"), Get(task, "task_id"),
                                   Get(task, "identifier")>>, TaskTemp))
             summary == Trim(Coalesce(<<Get(task, "summary"), Get(task, "title"),
                                        Get(task, "description")>>, PendingSummary))
             lastUpdate == Trim(Coalesce(<<Get(task, "last_update"), Get(task, "lastUpdate"),
                                           Get(task, "notes")>>, AwaitingDetails))
         IN  IF id = <<>> THEN Err("Task id missing")
             ELSE IF summary = <<>> THEN Err("Task summary missing")
             ELSE IF lastUpdate = <<>> THEN Err("Task last_update missing")
             ELSE Ok([id |-> id, summary |-> summary, last_update |-> lastUpdate])

sanitizeTasks(tasks) ==
    IF tasks.type # "array" THEN Err("tasks must be an array")
    ELSE LET each == [k \in 1..Len(tasks.items) |-> sanitizeTask(tasks.items[k])]
         IN  IF \E k \in 1..Len(each) : ~each[k].ok
             THEN each[CHOOSE k \in 1..Len(each) :
                          ~each[k].ok /\ \A j \in 1..(k - 1) : each[j].ok]
             ELSE Ok([k \in 1..Len(each) |-> each[k].value])

validateReasoning(reasoning) ==
    LET text == Trim(Coalesce(<<reasoning>>, <<>>))
    IN  IF text = <<>> THEN Err("Reasoning is empty") ELSE Ok(text)

validateFinal(action, final, tasks) ==
    LET text == Trim(Coalesce(<<final>>, <<>>))
    IN  IF text = <<>> THEN Err("Final output is empty")
        ELSE IF ~Validation(action, text, tasks) THEN Err("Final command failed validation")
        ELSE Ok(text)

\* variant: any number of tasks will do
AnyTaskCount(action, tasks) == Ok(TRUE)

ensureTaskCount(action, tasks) ==
    IF Len(tasks) = 0 THEN Err("At least one ongoing task is required")
    ELSE IF action \in {"update_task", "cancel_task", "noop"} /\ Len(tasks) < 2
    THEN Err("scenarios must include at least two ongoing tasks")
    ELSE Ok(TRUE)

\* variant: no check at all
NoUniquenessCheck(tasks) == Ok(TRUE)

uniqueTaskIds(tasks) ==
    IF \E k \in 1..Len(tasks) : tasks[k].id \in {tasks[j].id : j \in 1..(k - 1)}
    THEN Err("Duplicate task id detected")
    ELSE Ok(TRUE)

(***************************************************************************)
(* The oracle client.  A response of the completion service is a failure   *)
(* of the transport, or a body whose message content is missing or is a    *)
(* text.  A text is described by what the two parses of extractJson make   *)
(* of it: whether it holds a json-labelled fenced block, the value         *)
(* JSON.parse gives for the block's content, and the value it gives for    *)
(* the whole text (type "invalid": JSON.parse throws).                     *)
(***************************************************************************)
JInvalid == [type |-> "invalid"]

Text(hasFence, fenced, whole) ==
    [type |-> "text", hasFence |-> hasFence, fenced |-> fenced, whole |-> whole]

callGpt(response) ==
    IF response.status = "rejected" THEN Err("fetch failed")
    ELSE IF response.status = "not_ok" THEN Err("OpenAI request failed")
    ELSE IF response.content.type # "text" THEN Err("OpenAI response missing content")
    ELSE Ok(response.content)

extractJson(content) ==
    LET raw == IF content.hasFence THEN content.fenced ELSE content.whole
    IN  IF raw.type = "invalid" THEN Err("SyntaxError") ELSE Ok(raw)

\* generateExample(job) given the response the service makes to its request
generateExample(job, response) ==
    LET content == callGpt(response)
    IN  IF ~content.ok THEN content
        ELSE LET json == extractJson(content.value)
        IN  IF ~json.ok THEN json
        ELSE IF json.value.type = "undefined" THEN Err("TypeError")
        ELSE LET user == Trim(Coalesce(<<Get(json.value, "user")>>, <<>>))
        IN  IF user = <<>> THEN Err("User message missing")
        ELSE LET tasks == sanitizeTasks(Get(json.value, "tasks"))
        IN  IF ~tasks.ok THEN tasks
        ELSE LET count == ensureTaskCount(job.action, tasks.value)
        IN  IF ~count.ok THEN count
        ELSE LET unique == uniqueTaskIds(tasks.value)
        IN  IF ~unique.ok THEN unique
        ELSE LET reasoning == validateReasoning(Get(json.value, "reasoning"))
        IN  IF ~reasoning.ok THEN reasoning
        ELSE LET final == validateFinal(job.action, Get(json.value, "final"), tasks.value)
        IN  IF ~final.ok THEN final
        ELSE Ok([user |-> user, tasks |-> tasks.value,
                 reasoning |-> reasoning.value, final |-> final.value])

(***************************************************************************)
(* The responses the oracle is drawn from.                                 *)
(***************************************************************************)
Task1 == <<"t","a","s","k","-","1">>
Task2 == <<"t","a","s","k","-","2">>
Task9 == <<"t","a","s","k","-","9">>
Sp == <<" ">>

RawTask(id) ==
    JObj([id |-> JStr(id), summary |-> JStr(<<"s">>), last_update |-> JStr(<<"u">>)])

\* the alternate field names, with surrounding white space
AltTask(id) ==
    JObj([task_id |-> JStr(Sp \o id), title |-> JStr(<<"s", " ">>), notes |-> JStr(<<"u">>)])

\* resolves to the id through the third alternate, after trimming
IdentifierTask(id) ==
    JObj([identifier |-> JStr(id \o Sp), description |-> JStr(<<"s">>),
          lastUpdate |-> JStr(<<"u">>)])

\* {} : every attribute falls back to its default
EmptyTask == JObj(<<>>)

Payload(tasks, final) ==
    JObj([user |-> JStr(<<"q">>), tasks |-> tasks,
          reasoning |-> JStr(<<"-", " ", "r">>), final |-> final])

Final(prefix, args) == JStr(prefix \o args \o CloseParen)

TwoTasks == JArr(<<RawTask(Task1), RawTask(Task2)>>)

Payloads ==
    { Payload(JArr(<<RawTask(Task1)>>), Final(ReplyPrefix, <<"h","i">>)),
      Payload(JArr(<<RawTask(Task1)>>), Final(StartTaskPrefix, <<"x">>)),
      Payload(JArr(<<RawTask(Task1), AltTask(Task2)>>),
              JStr(Sp \o UpdateTaskPrefix \o Sp \o Task2 \o <<" ", ",", " ", "o", "k", ")", " ">>)),
      Payload(TwoTasks, Final(CancelTaskPrefix, Task1 \o <<",", "n", "o">>)),
      Payload(TwoTasks, JStr(NoopLiteral)),
      \* the final references an id that no task has
      Payload(TwoTasks, Final(UpdateTaskPrefix, Task9 \o <<",", " ", "o", "k">>)),
      Payload(TwoTasks, Final(CancelTaskPrefix, Task9 \o <<",", " ", "o", "k">>)),
      \* two tasks resolve to the same id
      Payload(JArr(<<RawTask(Task1), IdentifierTask(Task1)>>),
              Final(UpdateTaskPrefix, Task1 \o <<",", " ", "o", "k">>)),
      Payload(JArr(<<RawTask(Task1), IdentifierTask(Task1)>>), Final(ReplyPrefix, <<"h","i">>)),
      \* no comma, no closing parenthesis, a stray verb
      Payload(TwoTasks, Final(UpdateTaskPrefix, Task1)),
      Payload(TwoTasks, JStr(CancelTaskPrefix \o Task1 \o <<",", "n", "o">>)),
      Payload(TwoTasks, JStr(NoopLiteral \o <<".">>)),
      \* too few tasks, tasks that are no array, a task that is no object
      Payload(JArr(<<RawTask(Task1)>>), Final(UpdateTaskPrefix, Task1 \o <<",", "o", "k">>)),
      Payload(JArr(<<>>), Final(ReplyPrefix, <<"h","i">>)),
      Payload(JUndef, Final(ReplyPrefix, <<"h","i">>)),
      Payload(JArr(<<JStr(Task1)>>), Final(ReplyPrefix, <<"h","i">>)),
      Payload(JArr(<<RawTask(Sp)>>), Final(ReplyPrefix, <<"h","i">>)),
      \* an element without any of the attributes
      Payload(JArr(<<EmptyTask>>), Final(ReplyPrefix, <<"h","i">>)),
      \* missing user, reasoning, final
      JObj([tasks |-> TwoTasks, reasoning |-> JStr(<<"r">>), final |-> JStr(NoopLiteral)]),
      JObj([user |-> JStr(<<"q">>), tasks |-> TwoTasks, reasoning |-> JStr(Sp),
            final |-> JStr(NoopLiteral)]),
      JObj([user |-> JStr(<<"q">>), tasks |-> TwoTasks, reasoning |-> JStr(<<"r">>)]) }

\* message contents: a bare JSON text, a fenced one inside prose, prose alone,
\* and a fence around something that is no JSON
Contents ==
    {Text(FALSE, JInvalid, p) : p \in Payloads}
        \cup {Text(TRUE, p, JInvalid) : p \in {Payload(TwoTasks, JStr(NoopLiteral))}}
        \* a JSON text one of whose strings holds a fenced block that is no JSON
        \cup {Text(TRUE, JInvalid, Payload(TwoTasks, JStr(NoopLiteral)))}
        \cup {Text(FALSE, JInvalid, JInvalid), Text(TRUE, JInvalid, JInvalid),
              Text(FALSE, JInvalid, JUndef)}

Responses ==
    {[status |-> "rejected"], [status |-> "not_ok"], [status |-> "ok", content |-> JUndef]}
        \cup {[status |-> "ok", content |-> c] : c \in Contents}

\* generateExample reads of its job only the action (the other fields go into the
\* prompt): per action, the results it can return and the responses it throws on
AcceptedResults ==
    [a \in ActionKind |->
        {generateExample([action |-> a], r).value :
            r \in {x \in Responses : generateExample([action |-> a], x).ok}}]

RejectedResponses ==
    [a \in ActionKind |-> {r \in Responses : ~generateExample([action |-> a], r).ok}]

(***************************************************************************)
(* The program state: main's partition loop and the locals of runJobs.     *)
(***************************************************************************)
VARIABLES
    concurrency,   \* CONCURRENCY: the number of workers runJobs creates
    partitions,    \* what parseOverride returned: the partition names, in order
    part,          \* main's position in partitions, from 1
    mainpc,        \* where main is: build, running, writeJsonl, writeLoraJsonl, done, aborted
    offset,        \* main's running global offset
    jobs,          \* the job sequence handed to runJobs
    pointer,       \* runJobs' shared cursor
    completed,     \* runJobs' shared completed count
    results,       \* runJobs' results buffer, positions 0..jobs.length-1
    workers,       \* per worker: its phase, currentIndex, job and attempt, and the
                   \* delay of the timer it waits for (0: none)
    artifacts,     \* the files written so far
    produced,      \* history: what generateExample returned for each job (by globalIndex),
                   \* and the rank of that return among the run's successes
    claimCount,    \* history: how many times each index was taken from the cursor
    abortedBy,     \* history: the worker, index and attempt whose failure was rethrown
    argv,          \* the --rows= argument of the command line, if any
    issued,        \* history: the global indices buildJobs has handed out, in order
    messages,      \* the argument of mergeMessages
    merged,        \* what mergeMessages returned last
    passes,        \* how many times mergeMessages has been applied
    gen,           \* one call of generateExample followed step by step: its job's
                   \* action, the response it gets and what each step makes of it
    calls          \* history: the oracle calls issued in the current run of runJobs,
                   \* where they are counted (NotCounted: they are not)

vars == <<concurrency, partitions, part, mainpc, offset, jobs, pointer, completed,
          results, workers, artifacts, produced, claimCount, abortedBy,
          argv, issued, messages, merged, passes, gen, calls>>

\* the locals of runJobs
runVars == <<pointer, completed, workers, produced, claimCount, abortedBy, calls>>

NotCounted == -1

\* the count after n more calls
Counted(n) == IF calls = NotCounted THEN NotCounted ELSE calls + n

\* the workers that are at `await generateExample(job)` in ws2 with a call
\* they had not issued in ws: another job, or another attempt
NewCalls(ws, ws2) ==
    Cardinality({w \in DOMAIN ws2 :
        /\ ws2[w].phase = "calling"
        /\ \/ w \notin DOMAIN ws
           \/ ws[w].phase # "calling"
           \/ ws[w].currentIndex # ws2[w].currentIndex
           \/ ws[w].attempt # ws2[w].attempt})

\* an empty slot of `new Array(jobs.length)`, and "nothing yet" in the histories
Hole == [hole |-> TRUE]

\* no call of generateExample is followed
NoGen == [pc |-> "none", threwAt |-> "none", action |-> "noop", response |-> Hole,
          content |-> Hole, json |-> Hole, result |-> Hole, row |-> Hole]

NoAbort == [worker |-> 0, index |-> 0, attempt |-> 0]

\* no --rows= argument on the command line
NoOverride == [override |-> FALSE, finite |-> TRUE, value |-> 0]

\* the default partitions, or the single custom one of a --rows override
PartitionLists == {<<"train", "test">>, <<"custom">>}

\* the job sequences handed to runJobs: at most MaxJobs jobs whose action kinds
\* follow the order of ACTIONS cyclically from any kind, numbered from the offset
JobInputs(name, off) ==
    { [i \in 1..n |-> [action |-> Actions[((first + i - 2) % Len(Actions)) + 1],
                        partition |-> name,
                        globalIndex |-> off + i - 1]]
        : n \in 1..MaxJobs, first \in 1..Len(Actions) }

Indices == 0..(Len(jobs) - 1)

\* jobs[i]
JobOf(i) == jobs[i + 1]

\* the workers of the current call of runJobs
Workers == DOMAIN workers

Idle == [phase |-> "exited", currentIndex |-> -1, attempt |-> 0, job |-> Hole, sleepMs |-> 0]

\* variant: the rejection is caught and the process lives on
ProcessAliveAlways == TRUE

\* the uncaught rejection of `await main()` ends the process: once a worker has
\* rethrown, no pending fetch or timer of another worker is ever resumed
ProcessAlive == mainpc # "aborted"

(***************************************************************************)
(* worker: `const currentIndex = pointer++` and what follows up to the     *)
(* first await, applied to st = [pointer, workers, claimCount].            *)
(***************************************************************************)
Claim(st, w, js) ==
    LET currentIndex == st.pointer
    IN  IF currentIndex >= Len(js)
        THEN [st EXCEPT !.pointer = @ + 1, !.workers[w] = Idle]
        ELSE [st EXCEPT !.pointer = @ + 1,
                        !.workers[w] = [phase |-> "calling", currentIndex |-> currentIndex,
                                         attempt |-> 1, job |-> js[currentIndex + 1],
                                         sleepMs |-> 0],
                        !.claimCount[currentIndex] = @ + 1]

\* variant: one worker more than configured
OneWorkerTooMany == concurrency + 1

\* Array.from({length: CONCURRENCY}, ...): how many workers runJobs creates
WorkerCount == concurrency

\* the workers are started one after the
\* other, each running up to its first await
RECURSIVE StartWorkers(_, _, _, _)
StartWorkers(st, w, n, js) ==
    IF w > n THEN st ELSE StartWorkers(Claim(st, w, js), w + 1, n, js)

Init ==
    /\ concurrency \in 0..MaxConcurrency
    /\ partitions \in PartitionLists
    /\ part = 1
    /\ mainpc = "build"
    /\ offset = 0
    /\ jobs = <<>>
    /\ pointer = 0
    /\ completed = 0
    /\ results = <<>>
    /\ workers = <<>>
    /\ artifacts = {}
    /\ produced = <<>>
    /\ claimCount = <<>>
    /\ abortedBy = NoAbort
    \* the partitions and the jobs are inputs here: nothing is parsed or merged
    /\ argv = NoOverride
    /\ issued = <<>>
    /\ messages = <<>>
    /\ merged = <<>>
    /\ passes = 0
    /\ gen = NoGen
    /\ calls = NotCounted

\* main: buildJobs, then runJobs up to `await Promise.all(workers)`
BuildAndRun ==
    /\ mainpc = "build"
    /\ \E js \in JobInputs(partitions[part], offset) :
          LET st0 == [pointer |-> 0,
                      workers |-> [w \in 1..WorkerCount |-> Idle],
                      claimCount |-> [i \in 0..(Len(js) - 1) |-> 0]]
              st == StartWorkers(st0, 1, WorkerCount, js)
          IN  /\ jobs' = js
              /\ results' = [i \in 0..(Len(js) - 1) |-> Hole]
              /\ completed' = 0
              /\ pointer' = st.pointer
              /\ workers' = st.workers
              /\ claimCount' = st.claimCount
              /\ produced' = [g \in {js[i].globalIndex : i \in 1..Len(js)} |-> Hole]
    /\ mainpc' = "running"
    /\ UNCHANGED <<gen, argv, issued, messages, merged, passes>>
    /\ calls' = Counted(NewCalls(workers, workers'))
    /\ UNCHANGED <<concurrency, partitions, part, offset, artifacts, abortedBy>>

\* variant: results in the order of completion
StoreAtCompleted(w) == completed

\* the position a worker writes its result to
StoreIndex(w) == workers[w].currentIndex

\* variant: no `break` after the result is stored, the for loop goes on to the
\* next attempt of the same job
AttemptSucceedsNoBreak(w) ==
    /\ ProcessAlive
    /\ workers[w].phase = "calling"
    /\ \E result \in AcceptedResults[workers[w].job.action] :
          LET st == Claim([pointer |-> pointer, workers |-> workers,
                           claimCount |-> claimCount], w, jobs)
          IN  /\ results' = [results EXCEPT ![StoreIndex(w)] = result]
              /\ produced' = [produced EXCEPT ![workers[w].job.globalIndex] =
                                   [result |-> result, rank |-> completed + 1]]
              /\ completed' = completed + 1
              /\ IF workers[w].attempt < MAX_ATTEMPTS
                 THEN /\ workers' = [workers EXCEPT ![w].attempt = @ + 1]
                      /\ UNCHANGED <<pointer, claimCount>>
                 ELSE /\ pointer' = st.pointer
                      /\ workers' = st.workers
                      /\ claimCount' = st.claimCount
    /\ UNCHANGED <<gen, argv, issued, messages, merged, passes>>
    /\ calls' = Counted(NewCalls(workers, workers'))
    /\ UNCHANGED <<concurrency, partitions, part, mainpc, offset, jobs, artifacts, abortedBy>>

\* an attempt returns a validated result: it is stored, and the worker goes on
\* to claim its next index
AttemptSucceeds(w) ==
    /\ ProcessAlive
    /\ workers[w].phase = "calling"
    /\ \E result \in AcceptedResults[workers[w].job.action] :
          LET st == Claim([pointer |-> pointer, workers |-> workers,
                           claimCount |-> claimCount], w, jobs)
          IN  /\ results' = [results EXCEPT ![StoreIndex(w)] = result]
              /\ produced' = [produced EXCEPT ![workers[w].job.globalIndex] =
                                   [result |-> result, rank |-> completed + 1]]
              /\ completed' = completed + 1
              /\ pointer' = st.pointer
              /\ workers' = st.workers
              /\ claimCount' = st.claimCount
    /\ UNCHANGED <<gen, argv, issued, messages, merged, passes>>
    /\ calls' = Counted(NewCalls(workers, workers'))
    /\ UNCHANGED <<concurrency, partitions, part, mainpc, offset, jobs, artifacts, abortedBy>>

\* variant: the budget ends one attempt early
RetriesLeftOffByOne(attempt) == attempt < MAX_ATTEMPTS - 1

\* `if (attempt === MAX_ATTEMPTS) throw err`, negated
RetriesLeft(attempt) == attempt # MAX_ATTEMPTS

\* variant: a failure that gives the job up and moves on to the next index
AttemptFailsSkipsJob(w) ==
    /\ ProcessAlive
    /\ workers[w].phase = "calling"
    /\ RetriesLeft(workers[w].attempt)
    /\ RejectedResponses[workers[w].job.action] # {}
    /\ LET st == Claim([pointer |-> pointer, workers |-> workers,
                        claimCount |-> claimCount], w, jobs)
       IN  /\ workers' = st.workers
           /\ pointer' = st.pointer
           /\ claimCount' = st.claimCount
    /\ UNCHANGED <<gen, argv, issued, messages, merged, passes>>
    /\ calls' = Counted(NewCalls(workers, workers'))
    /\ UNCHANGED <<concurrency, partitions, part, mainpc, offset, jobs, completed,
                   results, artifacts, produced, abortedBy>>

\* variant: the same delay after every failure
FixedDelay(attempt) == BackoffBase

\* setTimeout(resolve, 500 * attempt)
BackoffDelay(attempt) == BackoffBase * attempt

\* an attempt fails and is not the last: the error is logged and the worker
\* sleeps 500 * attempt ms
AttemptFails(w) ==
    /\ ProcessAlive
    /\ workers[w].phase = "calling"
    /\ RetriesLeft(workers[w].attempt)
    /\ RejectedResponses[workers[w].job.action] # {}
    /\ workers' = [workers EXCEPT ![w].phase = "sleeping",
                                  ![w].sleepMs = BackoffDelay(workers[w].attempt)]
    /\ UNCHANGED <<gen, argv, issued, messages, merged, passes, calls>>
    /\ UNCHANGED <<concurrency, partitions, part, mainpc, offset, jobs, pointer, completed,
                   results, artifacts, produced, claimCount, abortedBy>>

\* variant: the retry does not count: the same attempt is made again
WakeSameAttempt(w) ==
    /\ ProcessAlive
    /\ workers[w].phase = "sleeping"
    /\ workers' = [workers EXCEPT ![w].phase = "calling", ![w].sleepMs = 0]
    /\ calls' = Counted(1)
    /\ UNCHANGED <<concurrency, partitions, part, mainpc, offset, jobs, pointer, completed,
                   results, artifacts, produced, claimCount, abortedBy>>
    /\ UNCHANGED <<gen, argv, issued, messages, merged, passes>>

\* the timer fires: the next attempt calls the oracle again
Wake(w) ==
    /\ ProcessAlive
    /\ workers[w].phase = "sleeping"
    /\ LET attempt == workers[w].attempt + 1
           st == Claim([pointer |-> pointer, workers |-> workers,
                        claimCount |-> claimCount], w, jobs)
       IN  IF attempt <= MAX_ATTEMPTS
           THEN /\ workers' = [workers EXCEPT ![w].phase = "calling", ![w].attempt = attempt,
                                              ![w].sleepMs = 0]
                /\ UNCHANGED <<pointer, claimCount>>
           ELSE \* the for loop ends without a result: back to the while loop
                /\ workers' = st.workers
                /\ pointer' = st.pointer
                /\ claimCount' = st.claimCount
    /\ UNCHANGED <<gen, argv, issued, messages, merged, passes>>
    /\ calls' = Counted(NewCalls(workers, workers'))
    /\ UNCHANGED <<concurrency, partitions, part, mainpc, offset, jobs, completed,
                   results, artifacts, produced, abortedBy>>

\* the last attempt fails: the error is rethrown, Promise.all rejects, runJobs
\* and main reject in turn
BudgetExhausted(w) ==
    /\ ProcessAlive
    /\ workers[w].phase = "calling"
    /\ ~RetriesLeft(workers[w].attempt)
    /\ RejectedResponses[workers[w].job.action] # {}
    /\ workers' = [workers EXCEPT ![w].phase = "thrown"]
    /\ mainpc' = "aborted"
    /\ abortedBy' = IF abortedBy = NoAbort
                    THEN [worker |-> w, index |-> workers[w].currentIndex,
                          attempt |-> workers[w].attempt]
                    ELSE abortedBy
    /\ UNCHANGED <<gen, argv, issued, messages, merged, passes, calls>>
    /\ UNCHANGED <<concurrency, partitions, part, offset, jobs, pointer, completed,
                   results, artifacts, produced, claimCount>>

\* every worker has left its loop: Promise.all resolves and runJobs returns
RunJobsReturns ==
    /\ mainpc = "running"
    /\ \A w \in Workers : workers[w].phase = "exited"
    /\ mainpc' = "writeJsonl"
    /\ UNCHANGED <<gen, argv, issued, messages, merged, passes, calls>>
    /\ UNCHANGED <<concurrency, partitions, part, offset, jobs, pointer, completed,
                   results, workers, artifacts, produced, claimCount, abortedBy>>

\* a file written by main: results.map(buildDatasetRow) skips the empty slots of
\* results, and the file has one line per position all the same
Artifact(kind) ==
    [partition |-> partitions[part], kind |-> kind,
     rows |-> Cardinality({i \in Indices : results[i] # Hole}),
     lines |-> Len(jobs)]

\* variant: the full artifact is not written
WriteJsonlNothing ==
    /\ mainpc = "writeJsonl"
    /\ mainpc' = "writeLoraJsonl"
    /\ UNCHANGED <<concurrency, partitions, part, offset, jobs, pointer, completed,
                   results, workers, artifacts, produced, claimCount, abortedBy>>
    /\ UNCHANGED <<gen, argv, issued, messages, merged, passes, calls>>

WriteJsonl ==
    /\ mainpc = "writeJsonl"
    /\ artifacts' = artifacts \cup {Artifact("full")}
    /\ mainpc' = "writeLoraJsonl"
    /\ UNCHANGED <<gen, argv, issued, messages, merged, passes, calls>>
    /\ UNCHANGED <<concurrency, partitions, part, offset, jobs, pointer, completed,
                   results, workers, produced, claimCount, abortedBy>>

\* variant: the offset is not advanced
OffsetKept == offset

\* `offset += results.length`, results being as long as jobs
NextOffset == offset + Len(jobs)

WriteLoraJsonl ==
    /\ mainpc = "writeLoraJsonl"
    /\ artifacts' = artifacts \cup {Artifact("lora")}
    /\ offset' = NextOffset
    /\ part' = part + 1
    /\ mainpc' = IF part + 1 <= Len(partitions) THEN "build" ELSE "done"
    \* the iteration ends: jobs, results and the locals of runJobs are gone
    /\ jobs' = <<>>
    /\ results' = <<>>
    /\ workers' = <<>>
    /\ pointer' = 0
    /\ completed' = 0
    /\ produced' = <<>>
    /\ claimCount' = <<>>
    /\ UNCHANGED <<gen, argv, issued, messages, merged, passes>>
    /\ calls' = Counted(-calls)
    /\ UNCHANGED <<concurrency, partitions, abortedBy>>

Next ==
    \/ BuildAndRun
    \/ \E w \in Workers : AttemptSucceeds(w)
    \/ \E w \in Workers : AttemptFails(w)
    \/ \E w \in Workers : Wake(w)
    \/ \E w \in Workers : BudgetExhausted(w)
    \/ RunJobsReturns
    \/ WriteJsonl
    \/ WriteLoraJsonl

Spec == Init /\ [][Next]_vars

(***************************************************************************)
(* SpecLive: the same program with the oracle calls counted, under the     *)
(* assumption that every oracle call returns and every timer fires.        *)
(***************************************************************************)
InitLive ==
    /\ concurrency \in 0..MaxConcurrency
    /\ partitions \in PartitionLists
    /\ part = 1
    /\ mainpc = "build"
    /\ offset = 0
    /\ jobs = <<>>
    /\ pointer = 0
    /\ completed = 0
    /\ results = <<>>
    /\ workers = <<>>
    /\ artifacts = {}
    /\ produced = <<>>
    /\ claimCount = <<>>
    /\ abortedBy = NoAbort
    /\ argv = NoOverride
    /\ issued = <<>>
    /\ messages = <<>>
    /\ merged = <<>>
    /\ passes = 0
    /\ gen = NoGen
    /\ calls = 0

\* `await generateExample(job)` settles: a result, or an error
OracleReturns(w) ==
    /\ w \in Workers
    /\ (AttemptSucceeds(w) \/ AttemptFails(w) \/ BudgetExhausted(w))

\* the setTimeout of the backoff fires
TimerFires(w) ==
    /\ w \in Workers
    /\ Wake(w)

Fairness ==
    /\ \A w \in 1..MaxConcurrency : WF_vars(OracleReturns(w)) /\ WF_vars(TimerFires(w))
    /\ WF_vars(RunJobsReturns)

SpecLive == InitLive /\ [][Next]_vars /\ Fairness

(***************************************************************************)
(* The configuration and the job builder.  SpecBuild follows main from the *)
(* command line through parseOverride and buildJobs; runJobs is taken by   *)
(* its outcome (Spec has its steps).                                       *)
(***************************************************************************)
MESSAGE_STYLES == <<"formal", "minimal", "fragment", "casual", "urgent">>

\* five themes per action, named by the action and their place in its list
THEMES == [a \in ActionKind |-> [k \in 1..5 |-> <<a, k>>]]

basePartitions ==
    <<[name |-> "train", perAction |-> TrainPerAction],
      [name |-> "test", perAction |-> TestPerAction]>>

\* the command lines: no --rows=, --rows=n, and a --rows= that is no finite number
RowsArgs ==
    {NoOverride}
        \cup {[override |-> TRUE, finite |-> TRUE, value |-> n] : n \in (-1)..MaxRows}
        \cup {[override |-> TRUE, finite |-> FALSE, value |-> 0]}

\* variant: the count per action is rounded up
parseOverrideCeiling(arg) ==
    IF ~arg.override THEN Ok(basePartitions)
    ELSE IF ~arg.finite \/ arg.value <= 0 THEN Err("--rows must be a positive number")
    ELSE LET perActionTotal == (arg.value + Len(Actions) - 1) \div Len(Actions)
         IN  IF arg.value < Len(Actions)
             THEN Err("--rows value too small to cover all action types")
             ELSE Ok(<<[name |-> "custom", perAction |-> perActionTotal]>>)

\* variant: a small override is rounded up to one row per action
parseOverrideAtLeastOne(arg) ==
    IF ~arg.override THEN Ok(basePartitions)
    ELSE IF ~arg.finite \/ arg.value <= 0 THEN Err("--rows must be a positive number")
    ELSE LET perActionTotal == arg.value \div Len(Actions)
         IN  Ok(<<[name |-> "custom",
                   perAction |-> IF perActionTotal <= 0 THEN 1 ELSE perActionTotal]>>)

parseOverride(arg) ==
    IF ~arg.override THEN Ok(basePartitions)
    ELSE IF ~arg.finite \/ arg.value <= 0 THEN Err("--rows must be a positive number")
    ELSE LET perActionTotal == arg.value \div Len(Actions)
         IN  IF perActionTotal <= 0
             THEN Err("--rows value too small to cover all action types")
             ELSE Ok(<<[name |-> "custom", perAction |-> perActionTotal]>>)

\* the inner for loop of buildJobs: the jobs of one action, numbered from first
JobsOfAction(partition, action, first) ==
    [k \in 1..partition.perAction |->
        LET i == k - 1
        IN  [action |-> action,
             partition |-> partition.name,
             theme |-> THEMES[action][(i % Len(THEMES[action])) + 1],
             index |-> i,
             globalIndex |-> first + i,
             messageStyle |-> MESSAGE_STYLES[(i % Len(MESSAGE_STYLES)) + 1]]]

\* ACTIONS.forEach of buildJobs, from the a-th action on
RECURSIVE PushJobs(_, _, _, _)
PushJobs(js, partition, a, globalIndex) ==
    IF a > Len(Actions) THEN js
    ELSE PushJobs(js \o JobsOfAction(partition, Actions[a], globalIndex), partition,
                  a + 1, globalIndex + partition.perAction)

\* variant: array[i] = array[j] alone
CopyOver(array, i, j) == [array EXCEPT ![i + 1] = array[j + 1]]

\* [array[i], array[j]] = [array[j], array[i]]
Swap(array, i, j) == [array EXCEPT ![i + 1] = array[j + 1], ![j + 1] = array[i + 1]]

\* Math.floor(Math.random() * (i + 1)) when Math.random() returns r / RandomGrain
RandomIndex(r, i) == (r * (i + 1)) \div RandomGrain

\* the values Math.random() returns during a shuffle of n elements, one per
\* iteration i = n - 1, ..., 1
Draws(n) == [1..(n - 1) -> 0..(RandomGrain - 1)]

RECURSIVE shuffleFrom(_, _, _)
shuffleFrom(array, i, draws) ==
    IF i <= 0 THEN array
    ELSE shuffleFrom(Swap(array, i, RandomIndex(draws[i], i)), i - 1, draws)

shuffle(array, draws) == shuffleFrom(array, Len(array) - 1, draws)

\* the arrays buildJobs can return, one per sequence of draws
buildJobs(partition, off) ==
    LET pushed == PushJobs(<<>>, partition, 1, off)
    IN  {shuffle(pushed, draws) : draws \in Draws(Len(pushed))}

InitBuild ==
    /\ argv \in RowsArgs
    /\ concurrency \in {0, 1}
    /\ partitions = <<>>
    /\ part = 1
    /\ mainpc = "start"
    /\ offset = 0
    /\ jobs = <<>>
    /\ pointer = 0
    /\ completed = 0
    /\ results = <<>>
    /\ workers = <<>>
    /\ artifacts = {}
    /\ produced = <<>>
    /\ claimCount = <<>>
    /\ abortedBy = NoAbort
    /\ issued = <<>>
    /\ messages = <<>>
    /\ merged = <<>>
    /\ passes = 0
    /\ gen = NoGen
    /\ calls = NotCounted

\* main: `const partitions = parseOverride()`; a throw rejects main
ParseOverride ==
    /\ mainpc = "start"
    /\ LET r == parseOverride(argv)
       IN  IF r.ok
           THEN partitions' = r.value /\ mainpc' = "build"
           ELSE partitions' = partitions /\ mainpc' = "configError"
    /\ UNCHANGED <<concurrency, part, offset, jobs, results, artifacts, runVars, gen,
                   argv, issued, messages, merged, passes>>

\* main: `const jobs = buildJobs(partition, offset)`
BuildJobs ==
    /\ mainpc = "build"
    /\ jobs' \in buildJobs(partitions[part], offset)
    /\ issued' = issued \o [k \in 1..(Len(Actions) * partitions[part].perAction) |->
                               PushJobs(<<>>, partitions[part], 1, offset)[k].globalIndex]
    /\ mainpc' = "built"
    /\ UNCHANGED <<concurrency, partitions, part, offset, results, artifacts, runVars, gen,
                   argv, messages, merged, passes>>

\* runJobs has resolved: an array as long as jobs, filled by the workers if
\* there are any
RunJobsResolved ==
    /\ mainpc = "built"
    /\ results' = [i \in Indices |->
                      IF concurrency = 0 THEN Hole ELSE [resultOf |-> JobOf(i).globalIndex]]
    /\ mainpc' = "writeJsonl"
    /\ UNCHANGED <<concurrency, partitions, part, offset, jobs, artifacts, runVars, gen,
                   argv, issued, messages, merged, passes>>

\* runJobs has rejected: a job ran out of attempts
RunJobsRejected ==
    /\ mainpc = "built"
    /\ concurrency > 0
    /\ mainpc' = "aborted"
    /\ UNCHANGED <<concurrency, partitions, part, offset, jobs, results, artifacts, runVars, gen,
                   argv, issued, messages, merged, passes>>

NextBuild ==
    \/ ParseOverride
    \/ BuildJobs
    \/ RunJobsResolved
    \/ RunJobsRejected
    \/ WriteJsonl
    \/ WriteLoraJsonl

SpecBuild == InitBuild /\ [][NextBuild]_vars

(***************************************************************************)
(* buildDatasetRow.  The developer prompt is the text of a file, trimmed;  *)
(* the task ledger is JSON.stringify(tasks, null, 2): one member per line, *)
(* two spaces of indentation per level, strings quoted and escaped.        *)
(***************************************************************************)
\* the text of intent_system_prompt.md, as readFile returns it
PromptFile == <<"\n", "#", " ", "P", "\n">>

DEVELOPERS_PROMPT == Trim(PromptFile)

\* JSON.stringify of one character inside a string
EscapeChar(c) ==
    CASE c = "\"" -> <<"\\", "\"">>
      [] c = "\\" -> <<"\\", "\\">>
      [] c = "\n" -> <<"\\", "n">>
      [] OTHER -> <<c>>

RECURSIVE EscapeFrom(_, _)
EscapeFrom(s, k) == IF k > Len(s) THEN <<>> ELSE EscapeChar(s[k]) \o EscapeFrom(s, k + 1)

\* JSON.stringify of a string
Quote(s) == <<"\"">> \o EscapeFrom(s, 1) \o <<"\"">>

Indent(n) == [i \in 1..n |-> " "]

\* one member of an object at the second level: `    "key": "value"`
Member(key, value) == Indent(4) \o Quote(key) \o <<":", " ">> \o Quote(value)

\* a TaskRecord as an element of the array; the keys in insertion order
StringifyTask(task) ==
    Indent(2) \o <<"{", "\n">>
        \o Member(<<"i","d">>, task.id) \o <<",", "\n">>
        \o Member(<<"s","u","m","m","a","r","y">>, task.summary) \o <<",", "\n">>
        \o Member(<<"l","a","s","t","_","u","p","d","a","t","e">>, task.last_update)
        \o <<"\n">> \o Indent(2) \o <<"}">>

RECURSIVE StringifyElements(_, _)
StringifyElements(tasks, k) ==
    IF k > Len(tasks) THEN <<>>
    ELSE StringifyTask(tasks[k])
             \o (IF k < Len(tasks) THEN <<",", "\n">> ELSE <<>>)
             \o StringifyElements(tasks, k + 1)

\* JSON.stringify(tasks, null, 2)
StringifyTasks(tasks) ==
    IF Len(tasks) = 0 THEN <<"[", "]">>
    ELSE <<"[", "\n">> \o StringifyElements(tasks, 1) \o <<"\n", "]">>

LedgerHeader == <<"#","#"," ","O","n","g","o","i","n","g"," ","t","a","s","k","s",":","\n">>

Turn(content, role, thinking) == [content |-> content, role |-> role, thinking |-> thinking]

\* variant: the reasoning is attached to the user's turn
buildDatasetRowThinkingOnUser(raw) ==
    [developer |-> DEVELOPERS_PROMPT,
     tasks |-> raw.tasks,
     user |-> raw.user,
     reasoning |-> raw.reasoning,
     final |-> raw.final,
     messages |-> <<Turn(DEVELOPERS_PROMPT, "system", JNull),
                    Turn(LedgerHeader \o StringifyTasks(raw.tasks), "system", JNull),
                    Turn(raw.user, "user", JStr(raw.reasoning)),
                    Turn(raw.final, "assistant", JNull)>>]

buildDatasetRow(raw) ==
    [developer |-> DEVELOPERS_PROMPT,
     tasks |-> raw.tasks,
     user |-> raw.user,
     reasoning |-> raw.reasoning,
     final |-> raw.final,
     messages |-> <<Turn(DEVELOPERS_PROMPT, "system", JNull),
                    Turn(LedgerHeader \o StringifyTasks(raw.tasks), "system", JNull),
                    Turn(raw.user, "user", JNull),
                    Turn(raw.final, "assistant", JStr(raw.reasoning))>>]

(***************************************************************************)
(* mergeMessages, which writeLoraJsonl applies to the messages of a row.   *)
(* A message is [content, role, thinking], content a string and thinking a *)
(* string or null.  SpecMerge applies the function to a message sequence   *)
(* and then to its own result.                                             *)
(***************************************************************************)
\* `current.thinking ? ... : ...`: null and the empty string are falsy
Truthy(v) == v.type = "string" /\ v.str # <<>>

\* the else branch: merged.push({content, role, thinking})
PushedTurn(current) ==
    [content |-> Trim(current.content),
     role |-> current.role,
     thinking |-> IF Truthy(current.thinking) /\ Trim(current.thinking.str) # <<>>
                  THEN JStr(Trim(current.thinking.str))
                  ELSE JNull]

\* variant: the joined content is left untrimmed
JoinContentUntrimmed(last, current) == last.content \o <<"\n">> \o current.content

\* last.content = `${last.content}\n${current.content}`.trim()
JoinContent(last, current) == Trim(last.content \o <<"\n">> \o current.content)

\* the thinking of last after `if (current.thinking) {...}`
JoinThinking(last, current) ==
    IF Truthy(current.thinking)
    THEN LET combined == IF Truthy(last.thinking)
                         THEN Trim(last.thinking.str \o <<"\n">> \o current.thinking.str)
                         ELSE Trim(current.thinking.str)
         IN  IF Len(combined) > 0 THEN JStr(combined) ELSE JNull
    ELSE last.thinking

\* The turns are objects: they live in a heap, a sequence of turns, and an
\* address is an index into it; an array of messages is a sequence of addresses.
\* The state of the loop is the heap and the array merged.

\* variant: merged.push(current), the array shares the object with the input
PushCurrent(st, current) == [heap |-> st.heap, merged |-> Append(st.merged, current)]

\* merged.push({...}): a new object, at a new address
PushFresh(st, current) ==
    [heap |-> Append(st.heap, PushedTurn(st.heap[current])),
     merged |-> Append(st.merged, Len(st.heap) + 1)]

\* the body of the for loop; last is merged[merged.length - 1], 0 for undefined,
\* and the assignments to last.content and last.thinking write the heap
\* variant: every message becomes a turn of its own
MergeStepNoJoin(st, current) == PushFresh(st, current)

MergeStep(st, current) ==
    LET last == IF st.merged = <<>> THEN 0 ELSE st.merged[Len(st.merged)]
    IN  IF last # 0 /\ st.heap[last].role = st.heap[current].role
        THEN [st EXCEPT !.heap[last] =
                            [content |-> JoinContent(@, st.heap[current]),
                             role |-> @.role,
                             thinking |-> JoinThinking(@, st.heap[current])]]
        ELSE PushFresh(st, current)

RECURSIVE mergeFrom(_, _, _)
mergeFrom(st, msgs, k) ==
    IF k > Len(msgs) THEN st ELSE mergeFrom(MergeStep(st, msgs[k]), msgs, k + 1)

\* mergeMessages(messages) on a heap: the heap it leaves and the array it returns
mergeMessages(heap, msgs) == mergeFrom([heap |-> heap, merged |-> <<>>], msgs, 1)

\* the turns an array of addresses refers to
Deref(heap, addrs) == [i \in 1..Len(addrs) |-> heap[addrs[i]]]

\* an array of n objects laid out at the addresses 1..n
Addresses(n) == [i \in 1..n |-> i]

Roles == {"system", "user", "assistant"}

\* contents: text with trailing white space, and white space alone
ContentInputs == {<<"a", " ">>, <<"\n">>}

\* thinking: null, the empty string, white space alone, text to be trimmed
ThinkingInputs == {JNull, JStr(<<>>), JStr(<<" ">>), JStr(<<"t", " ">>)}

MessageInputs ==
    UNION {[1..n -> [content : ContentInputs, role : Roles, thinking : ThinkingInputs]] :
              n \in 0..MaxMessages}

\* the messages of the rows main assembles from the results of the validator
AssembledMessages ==
    {buildDatasetRow(r).messages : r \in UNION {AcceptedResults[a] : a \in ActionKind}}

InitMerge ==
    /\ messages \in MessageInputs \cup AssembledMessages
    /\ merged = <<>>
    /\ passes = 0
    /\ argv = NoOverride
    /\ concurrency = 1
    /\ partitions = <<"custom">>
    /\ part = 1
    /\ mainpc = "writeLoraJsonl"
    /\ offset = 0
    /\ jobs = <<>>
    /\ pointer = 0
    /\ completed = 0
    /\ results = <<>>
    /\ workers = <<>>
    /\ artifacts = {}
    /\ produced = <<>>
    /\ claimCount = <<>>
    /\ abortedBy = NoAbort
    /\ issued = <<>>
    /\ gen = NoGen
    /\ calls = NotCounted

\* writeLoraJsonl: mergeMessages(row.messages)
Merge ==
    /\ passes = 0
    /\ LET st == mergeMessages(messages, Addresses(Len(messages)))
       IN  /\ merged' = Deref(st.heap, st.merged)
           \* the row's messages, as the call leaves them
           /\ messages' = Deref(st.heap, Addresses(Len(messages)))
    /\ passes' = 1
    /\ UNCHANGED <<concurrency, partitions, part, mainpc, offset, jobs, results, artifacts,
                   runVars, gen, argv, issued>>

\* mergeMessages applied to what it returned
MergeAgain ==
    /\ passes = 1
    /\ LET st == mergeMessages(merged, Addresses(Len(merged)))
       IN  merged' = Deref(st.heap, st.merged)
    /\ passes' = 2
    /\ UNCHANGED <<concurrency, partitions, part, mainpc, offset, jobs, results, artifacts,
                   runVars, gen, argv, issued, messages>>

NextMerge ==
    \/ Merge
    \/ MergeAgain

SpecMerge == InitMerge /\ [][NextMerge]_vars

(***************************************************************************)
(* SpecRow: one call of generateExample, step by step, for a job of any    *)
(* action and any response of the oracle.                                  *)
(***************************************************************************)
allButGen ==
    <<concurrency, partitions, part, mainpc, offset, jobs, results, artifacts, runVars,
      argv, issued, messages, merged, passes>>

\* a task whose summary holds the characters JSON.stringify escapes
EscapedTask ==
    JObj([id |-> JStr(Task1), summary |-> JStr(<<"a", "\"", "\\", "\n", "b">>),
          last_update |-> JStr(<<"u">>)])

RowResponses ==
    Responses \cup
        {[status |-> "ok",
          content |-> Text(FALSE, JInvalid,
                           Payload(JArr(<<EscapedTask>>), Final(ReplyPrefix, <<"h","i">>)))]}

InitRow ==
    /\ gen \in {[NoGen EXCEPT !.pc = "callGpt", !.action = a, !.response = r] :
                    a \in ActionKind, r \in RowResponses}
    /\ concurrency = 1
    /\ partitions = <<"custom">>
    /\ part = 1
    /\ mainpc = "running"
    /\ offset = 0
    /\ jobs = <<>>
    /\ pointer = 0
    /\ completed = 0
    /\ results = <<>>
    /\ workers = <<>>
    /\ artifacts = {}
    /\ produced = <<>>
    /\ claimCount = <<>>
    /\ abortedBy = NoAbort
    /\ argv = NoOverride
    /\ issued = <<>>
    /\ messages = <<>>
    /\ merged = <<>>
    /\ passes = 0
    /\ calls = NotCounted

\* generateExample: `const content = await callGpt(...)`
GenCallGpt ==
    /\ gen.pc = "callGpt"
    /\ LET r == callGpt(gen.response)
       IN  gen' = IF r.ok THEN [gen EXCEPT !.pc = "extractJson", !.content = r.value]
                  ELSE [gen EXCEPT !.pc = "threw", !.threwAt = "callGpt"]
    /\ UNCHANGED allButGen

\* generateExample: `const json = extractJson(content)`
GenExtractJson ==
    /\ gen.pc = "extractJson"
    /\ LET r == extractJson(gen.content)
       IN  gen' = IF r.ok THEN [gen EXCEPT !.pc = "validate", !.json = r.value]
                  ELSE [gen EXCEPT !.pc = "threw", !.threwAt = "extractJson"]
    /\ UNCHANGED allButGen

\* generateExample: the checks on the parsed payload, up to the return
GenValidate ==
    /\ gen.pc = "validate"
    /\ LET r == generateExample([action |-> gen.action], gen.response)
       IN  gen' = IF r.ok THEN [gen EXCEPT !.pc = "returned", !.result = r.value]
                  ELSE [gen EXCEPT !.pc = "threw", !.threwAt = "validate"]
    /\ UNCHANGED allButGen

\* main: results.map(buildDatasetRow), for the result of this job
GenBuildRow ==
    /\ gen.pc = "returned"
    /\ gen' = [gen EXCEPT !.pc = "row", !.row = buildDatasetRow(gen.result)]
    /\ UNCHANGED allButGen

NextRow ==
    \/ GenCallGpt
    \/ GenExtractJson
    \/ GenValidate
    \/ GenBuildRow

SpecRow == InitRow /\ [][NextRow]_vars

(***************************************************************************)
(* Properties.                                                             *)
(***************************************************************************)
\* runJobs has returned its results to main
ReturnedNormally == mainpc \in {"writeJsonl", "writeLoraJsonl"}

Filled(i) == results[i] # Hole

\* C1: with two or more workers, whatever the order in which jobs finish, a filled
\* position i of the results holds the result generateExample returned for
\* jobs[i], and when runJobs returns normally every position is filled that way.
C1_ResultsFollowJobOrder ==
    concurrency >= 2 =>
        /\ \A i \in Indices :
              Filled(i) => /\ produced[JobOf(i).globalIndex] # Hole
                           /\ results[i] = produced[JobOf(i).globalIndex].result
        /\ ReturnedNormally => \A i \in Indices : Filled(i)

\* a normal return in which a later job finished before an earlier one
C1_Witness ==
    /\ concurrency >= 2
    /\ ReturnedNormally
    /\ \E i, j \in Indices :
          /\ i < j
          /\ JobOf(i).action # JobOf(j).action
          /\ produced[JobOf(i).globalIndex].rank > produced[JobOf(j).globalIndex].rank

\* C2: no worker is ever beyond attempt MAX_ATTEMPTS of its job, no index is
\* handed out twice, and an abort is raised only by the failure of attempt
\* MAX_ATTEMPTS of the job that raises it, which has no result; with a worker
\* to run it, a run in which nothing succeeded does not return normally.
C2_AbortOnlyAfterMaxAttempts ==
    /\ (ReturnedNormally /\ concurrency >= 1) => completed > 0
    /\ \A w \in Workers : workers[w].attempt <= MAX_ATTEMPTS
    /\ \A i \in Indices : claimCount[i] <= 1
    /\ \A w \in Workers : workers[w].phase = "thrown" => mainpc = "aborted"
    /\ mainpc = "aborted" =>
          /\ abortedBy.attempt = MAX_ATTEMPTS
          /\ workers[abortedBy.worker].phase = "thrown"
          /\ workers[abortedBy.worker].currentIndex = abortedBy.index
          /\ workers[abortedBy.worker].attempt = MAX_ATTEMPTS
          /\ ~Filled(abortedBy.index)

\* the run of an oracle that never succeeds: an abort with nothing completed
C2_Witness ==
    /\ mainpc = "aborted"
    /\ completed = 0
    /\ abortedBy.attempt = MAX_ATTEMPTS
    /\ \A i \in Indices : ~Filled(i)

\* C3: every artifact on disk holds a validated row for every job of its
\* partition, and a partition whose run aborted has no artifact.
C3_ArtifactsAllOrNothing ==
    /\ \A a \in artifacts : a.rows = a.lines
    /\ mainpc = "aborted" => \A a \in artifacts : a.partition # partitions[part]

\* C4: no index is claimed twice, the cursor never decreases, and when runJobs
\* returns normally every index has been claimed exactly once.
C4_EachIndexClaimedOnce ==
    /\ [](\A i \in Indices : claimCount[i] <= 1)
    /\ [](ReturnedNormally => \A i \in Indices : claimCount[i] = 1)
    /\ [][mainpc = "running" => pointer' >= pointer]_vars

\* the jobs in process: claimed, and without a result
InProcess == {i \in Indices : claimCount[i] > 0 /\ ~Filled(i)}

\* C5: the jobs in process (claimed, without a result) never outnumber the
\* configured concurrency, a worker holds one job, and a worker leaves its job
\* for another index only in the step that stores the job's result.
C5_BoundedInFlight ==
    /\ [](Cardinality(InProcess) <= concurrency)
    /\ [](\A v, w \in Workers :
             (v # w /\ workers[v].phase \in {"calling", "sleeping"}
                    /\ workers[w].phase \in {"calling", "sleeping"})
                 => workers[v].currentIndex # workers[w].currentIndex)
    /\ [][\A w \in Workers :
            (mainpc = "running" /\ workers[w].phase \in {"calling", "sleeping"}
               /\ workers'[w].currentIndex # workers[w].currentIndex)
                => (~Filled(workers[w].currentIndex) /\ results'[workers[w].currentIndex] # Hole)]_vars

\* as many jobs in process as there are workers, with jobs left to claim
C5_Witness ==
    /\ concurrency >= 2
    /\ Cardinality(InProcess) = concurrency
    /\ \E w \in Workers : workers[w].currentIndex >= concurrency

\* C6: a step in which the call of a worker on an attempt below MAX_ATTEMPTS ends
\* without a result leaves the worker on the same job and attempt, sleeping,
\* aborts nothing and stores nothing; the step that ends the sleep starts the
\* next attempt of the same job.
C6_FailureBelowMaxIsRetried ==
    [][\A w \in Workers :
          /\ ( /\ mainpc = "running"
               /\ workers[w].phase = "calling"
               /\ workers[w].attempt < MAX_ATTEMPTS
               /\ workers'[w] # workers[w]
               /\ results'[workers[w].currentIndex] = Hole )
              => /\ [workers'[w] EXCEPT !.sleepMs = 0] = [workers[w] EXCEPT !.phase = "sleeping"]
                 /\ mainpc' = "running"
                 /\ results' = results
                 /\ completed' = completed
                 /\ pointer' = pointer
          /\ ( /\ mainpc = "running"
               /\ workers[w].phase = "sleeping"
               /\ workers'[w] # workers[w] )
              => workers'[w] = [workers[w] EXCEPT !.phase = "calling", !.attempt = @ + 1,
                                                  !.sleepMs = 0]
      ]_vars

\* a worker on a later attempt of a job that still has no result
C6_Witness ==
    /\ mainpc = "running"
    /\ \E w \in Workers :
          /\ workers[w].phase = "calling"
          /\ workers[w].attempt = MAX_ATTEMPTS
          /\ ~Filled(workers[w].currentIndex)

\* C7: runJobs returns normally only with a result at every position.
C7_ReturnsOnlyWhenComplete ==
    ReturnedNormally => \A i \in Indices : Filled(i)

\* C8: the step in which a worker rethrows aborts the run, and from then on no
\* index is claimed, no attempt is started, no result is stored and no artifact
\* is written.
C8_NothingAfterAbort ==
    [][ /\ ( /\ mainpc = "running"
              /\ \E w \in Workers : workers[w].phase # "thrown" /\ workers'[w].phase = "thrown" )
            => mainpc' = "aborted"
        /\ mainpc = "aborted"
            => UNCHANGED <<pointer, claimCount, workers, results, completed, artifacts, mainpc>>
      ]_vars

\* an abort that leaves a call of another worker in flight and an index unclaimed
C8_Witness ==
    /\ mainpc = "aborted"
    /\ pointer < Len(jobs)
    /\ \E w \in Workers : workers[w].phase = "calling"

\* the ids of a task list are pairwise distinct
DistinctIds(tasks) ==
    \A j, k \in 1..Len(tasks) : j # k => tasks[j].id # tasks[k].id

\* the responses whose tasks sanitize to a list with a repeated id
DuplicateIdResponses ==
    {r \in Responses :
        /\ callGpt(r).ok
        /\ extractJson(callGpt(r).value).ok
        /\ LET tasks == sanitizeTasks(Get(extractJson(callGpt(r).value).value, "tasks"))
           IN  tasks.ok /\ ~DistinctIds(tasks.value)}

DuplicateIdsRejected ==
    \A a \in ActionKind : DuplicateIdResponses \subseteq RejectedResponses[a]

\* C9: the task ids of every stored result are pairwise distinct, and a response
\* in which two tasks resolve to the same id is rejected whatever the action.
C9_TaskIdsDistinct ==
    /\ \A i \in Indices : Filled(i) => DistinctIds(results[i].tasks)
    /\ DuplicateIdsRejected

\* a stored result with two tasks, while the oracle can answer with a repeated id
C9_Witness ==
    /\ DuplicateIdResponses # {}
    /\ \E i \in Indices : Filled(i) /\ Len(results[i].tasks) >= 2

\* the trimmed text between the opening parenthesis and the first comma
EmbeddedId(final) ==
    Trim(Slice(final, IndexOf(final, "(") + 1, IndexOf(final, ",")))

\* the response of the scenario: update_task(task-9, ok) over task-1 and task-2
AbsentIdResponse ==
    [status |-> "ok",
     content |-> Text(FALSE, JInvalid,
                      Payload(TwoTasks, Final(UpdateTaskPrefix, Task9 \o <<",", " ", "o", "k">>)))]

\* C10: in every stored result of an update_task or cancel_task job the final
\* has a comma and the id embedded in it is the id of one of the result's tasks;
\* the response update_task(task-9, ok) over task-1 and task-2 is rejected.
C10_FinalReferencesTask ==
    /\ \A i \in Indices :
          (Filled(i) /\ JobOf(i).action \in {"update_task", "cancel_task"})
              => /\ IndexOf(results[i].final, ",") # -1
                 /\ \E k \in 1..Len(results[i].tasks) :
                       results[i].tasks[k].id = EmbeddedId(results[i].final)
    /\ AbsentIdResponse \in Responses
    /\ AbsentIdResponse \in RejectedResponses["update_task"]

\* a stored update_task result whose embedded id needed trimming
C10_Witness ==
    \E i \in Indices :
        /\ Filled(i)
        /\ JobOf(i).action = "update_task"
        /\ EmbeddedId(results[i].final) = Task2
        /\ Slice(results[i].final, Len(UpdateTaskPrefix), Len(UpdateTaskPrefix) + 1) = Sp

\* the responses that carry a well-formed payload with fewer tasks than the
\* action asks for: no task at all, or one task for an action that needs two
ShortTaskListResponses(action) ==
    {r \in Responses :
        /\ callGpt(r).ok
        /\ extractJson(callGpt(r).value).ok
        /\ LET tasks == Get(extractJson(callGpt(r).value).value, "tasks")
           IN  /\ tasks.type = "array"
               /\ \/ Len(tasks.items) = 0
                  \/ action \in {"update_task", "cancel_task", "noop"} /\ Len(tasks.items) < 2}

ShortTaskListsRejected ==
    \A a \in ActionKind : ShortTaskListResponses(a) \subseteq RejectedResponses[a]

\* C11: every stored result has at least one task, and at least two when its
\* job's action is update_task, cancel_task or noop; so has every row written.
C11_TaskCounts ==
    /\ \A i \in Indices :
          Filled(i) =>
              /\ Len(results[i].tasks) >= 1
              /\ JobOf(i).action \in {"update_task", "cancel_task", "noop"}
                    => Len(results[i].tasks) >= 2
    /\ ShortTaskListsRejected

\* a stored one-task result, while the oracle can answer an update_task job
\* with one task only
C11_Witness ==
    /\ ShortTaskListsRejected
    /\ \E i \in Indices : Filled(i) /\ Len(results[i].tasks) = 1
    /\ \E i \in Indices : Filled(i) /\ JobOf(i).action = "noop" /\ Len(results[i].tasks) = 2

\* C18: a worker sleeps only between two attempts of its job, and the delay of
\* the sleep that follows failed attempt k is 500 * k ms (500, 1000, 1500);
\* a worker that is calling, has rethrown or has left has no timer pending.
\* The step that fails an attempt below the maximum starts that sleep, the
\* step that fails the last attempt and the step that stores a result start
\* none, and the sleep ends in attempt k + 1 of the same job.
C18_LinearBackoff ==
    /\ [](\A w \in Workers :
             IF workers[w].phase = "sleeping"
             THEN /\ workers[w].attempt \in 1..(MAX_ATTEMPTS - 1)
                  /\ workers[w].sleepMs = 500 * workers[w].attempt
             ELSE workers[w].sleepMs = 0)
    /\ [][\A w \in Workers :
            (mainpc = "running" /\ workers[w].phase = "calling" /\ workers'[w] # workers[w])
               => IF workers[w].attempt < MAX_ATTEMPTS /\ results'[workers[w].currentIndex] = Hole
                  THEN workers'[w].phase = "sleeping" /\ workers'[w].sleepMs = 500 * workers[w].attempt
                  ELSE workers'[w].phase # "sleeping" /\ workers'[w].sleepMs = 0]_vars
    /\ [][\A w \in Workers :
            (mainpc = "running" /\ workers[w].phase = "sleeping" /\ workers'[w] # workers[w])
               => /\ workers'[w].phase = "calling"
                  /\ workers'[w].attempt = workers[w].attempt + 1
                  /\ workers'[w].currentIndex = workers[w].currentIndex]_vars

\* a worker in the 1500 ms sleep that follows its third failure, and another
\* that has rethrown and sleeps no more
C18_Witness ==
    /\ \E w \in Workers :
          workers[w].phase = "sleeping" /\ workers[w].attempt = 3 /\ workers[w].sleepMs = 1500
    /\ \E w \in Workers : workers[w].phase = "thrown" /\ workers[w].sleepMs = 0

\* C19: during a run a filled position of results never changes, a position is
\* filled only in a step of a worker that was calling the oracle for that very
\* position and leaves the job in that step, a step that ends a call without
\* a result changes no position, and no worker is ever at work on a job whose
\* position is filled.
C19_ResultsWriteOnce ==
    /\ [](\A w \in Workers :
             workers[w].phase \in {"calling", "sleeping", "thrown"}
                => ~Filled(workers[w].currentIndex))
    /\ [][(mainpc = "running" /\ mainpc' # "build") =>
            \A i \in Indices :
               /\ Filled(i) => results'[i] = results[i]
               /\ (~Filled(i) /\ results'[i] # Hole) =>
                     /\ results'[i] \in AcceptedResults[JobOf(i).action]
                     /\ \E w \in Workers :
                           /\ workers[w].phase = "calling"
                           /\ workers[w].currentIndex = i
                           /\ workers'[w].currentIndex # i
                     /\ \A j \in Indices \ {i} : results'[j] = results[j]]_vars
    /\ [][(mainpc = "running" /\ \E w \in Workers :
                                    /\ workers[w].phase = "calling"
                                    /\ workers'[w].phase \in {"sleeping", "thrown"})
            => results' = results]_vars

\* a filled position next to a job that has failed three times and is tried again
C19_Witness ==
    /\ mainpc = "running"
    /\ \E i \in Indices : Filled(i)
    /\ \E w \in Workers : workers[w].phase = "calling" /\ workers[w].attempt = MAX_ATTEMPTS

\* C20: the completed count equals the number of filled positions of results,
\* never exceeds the number of jobs, never decreases during a run, and equals
\* the number of jobs when runJobs returns normally.
C20_CompletedCountsResults ==
    /\ [](completed = Cardinality({i \in Indices : Filled(i)}))
    /\ [](completed <= Len(jobs))
    /\ [](ReturnedNormally => completed = Len(jobs))
    /\ [][mainpc = "running" => completed' >= completed]_vars

\* the defaults of sanitizeTasks
Placeholders == {TaskTemp, PendingSummary, AwaitingDetails}

\* no task element of the oracle's payloads carries one of the defaults as a value
NoPayloadCarriesPlaceholder ==
    \A p \in Payloads :
        Get(p, "tasks").type = "array" =>
            \A k \in 1..Len(Get(p, "tasks").items) :
                LET item == Get(p, "tasks").items[k]
                IN  item.type = "object" =>
                        \A f \in DOMAIN item.fields : item.fields[f] \notin {JStr(v) : v \in Placeholders}

\* C16: sanitation substitutes no placeholder: as no payload of the oracle
\* carries "task-temp", "Pending summary" or "Awaiting details", no task of a
\* stored result has one of them as its id, summary or last_update.
C16_NoPlaceholderSubstituted ==
    NoPayloadCarriesPlaceholder =>
        \A i \in Indices :
            Filled(i) =>
                \A k \in 1..Len(results[i].tasks) :
                    /\ results[i].tasks[k].id # TaskTemp
                    /\ results[i].tasks[k].summary # PendingSummary
                    /\ results[i].tasks[k].last_update # AwaitingDetails

\* C17: the final of every stored start_task result names, between the opening
\* parenthesis and the first comma, the id of one of the result's tasks.
C17_StartTaskReferencesTask ==
    \A i \in Indices :
        (Filled(i) /\ JobOf(i).action = "start_task")
            => TaskRefValidation(results[i].final, results[i].tasks, StartTaskPrefix)

\* buildJobs has just returned the jobs of partitions[part]
JobsBuilt == mainpc = "built"

\* the place of an action kind in ACTIONS, from 0
KindNo(a) ==
    CASE a = "reply" -> 0 [] a = "start_task" -> 1 [] a = "update_task" -> 2
      [] a = "cancel_task" -> 3 [] a = "noop" -> 4

\* the i-th job of kind a of a partition of n jobs per kind, built at offset off
ExpectedJob(a, i, name, n, off) ==
    [action |-> a, partition |-> name, theme |-> <<a, (i % 5) + 1>>, index |-> i,
     globalIndex |-> off + (KindNo(a) * n) + i,
     messageStyle |-> MESSAGE_STYLES[(i % 5) + 1]]

\* C12: whatever the shuffle draws, the jobs buildJobs returns for a partition
\* of n per action are n x 5 jobs, n of each of the five kinds, each of them a
\* job as the loops pushed it, and no two of them the same: every pushed job is
\* among them exactly once and unaltered.
C12_JobsBalanced ==
    JobsBuilt =>
        LET n == partitions[part].perAction
        IN  /\ Len(jobs) = n * 5
            /\ \A a \in ActionKind :
                  Cardinality({k \in 1..Len(jobs) : jobs[k].action = a}) = n
            /\ \A k \in 1..Len(jobs) :
                  /\ jobs[k].index \in 0..(n - 1)
                  /\ jobs[k] = ExpectedJob(jobs[k].action, jobs[k].index,
                                           partitions[part].name, n, offset)
            /\ Cardinality({jobs[k] : k \in 1..Len(jobs)}) = Len(jobs)

\* ten jobs, two of each kind, that the shuffle has taken out of the order of
\* ACTIONS: a noop job first and a reply job last
C12_Witness ==
    /\ mainpc = "built"
    /\ partitions[part].perAction = 2
    /\ Len(jobs) = 10
    /\ jobs[1].action = "noop"
    /\ jobs[10].action = "reply"

\* a --rows= value from 0 to 4
SmallOverride == argv.override /\ argv.finite /\ argv.value \in 0..4

\* C14: with --rows= below five main ends in the configuration error thrown by
\* parseOverride in its first step; no partition is configured, no job is
\* built, runJobs is never called and no artifact is written.
C14_SmallOverrideFailsFirst ==
    /\ [](SmallOverride =>
            /\ mainpc \in {"start", "configError"}
            /\ partitions = <<>>
            /\ jobs = <<>>
            /\ issued = <<>>
            /\ results = <<>>
            /\ artifacts = {})
    /\ [][(SmallOverride /\ mainpc = "start") => mainpc' = "configError"]_vars
    /\ [][mainpc = "configError" => UNCHANGED vars]_vars

\* --rows=4 has failed
C14_Witness ==
    /\ argv.override
    /\ argv.value = 4
    /\ mainpc = "configError"

\* C15: the global indices handed out in an invocation are 0, 1, 2, ... without
\* a gap or a repeat; the jobs of a partition carry the consecutive indices from
\* the offset on, each once, and the offset of the next partition is the number
\* of indices handed out so far.
C15_GlobalIndexUnique ==
    /\ \A k \in 1..Len(issued) : issued[k] = k - 1
    /\ JobsBuilt =>
          \A g \in offset..(offset + Len(jobs) - 1) :
              Cardinality({k \in 1..Len(jobs) : jobs[k].globalIndex = g}) = 1
    /\ Len(issued) = offset + Len(jobs)

\* the jobs of the second partition, numbered from the size of the first
C15_Witness ==
    /\ mainpc = "built"
    /\ part = 2
    /\ offset = 5 * partitions[1].perAction
    /\ \E k \in 1..Len(jobs) : jobs[k].globalIndex = offset + Len(jobs) - 1

\* C13: mergeMessages applied to its own result returns that result: the same
\* turns in the same order, each with the same role, content and thinking.
C13_MergeIdempotent ==
    [][passes = 1 =>
          /\ Len(merged') = Len(merged)
          /\ \A k \in 1..Len(merged) :
                /\ merged'[k].role = merged[k].role
                /\ merged'[k].content = merged[k].content
                /\ merged'[k].thinking = merged[k].thinking]_vars

\* merged twice: three messages that became two turns, one of them with the
\* joined thinking of two messages and a trimmed content
C13_Witness ==
    /\ passes = 2
    /\ Len(messages) = 3
    /\ Len(merged) = 2
    /\ \E k \in 1..2 :
          /\ merged[k].thinking = JStr(<<"t", "\n", "t">>)
          /\ merged[k].content = <<"a">>

\* C21: while the oracle's calls return and the timers fire, a run of runJobs
\* that has started ends, in a normal return or in an abort; it never issues
\* more than MAX_ATTEMPTS x (number of jobs) oracle calls; and a worker that
\* waits for the oracle or for its timer can go on whatever the others do.
C21_RunEnds ==
    /\ [](calls <= MAX_ATTEMPTS * Len(jobs))
    /\ [](mainpc = "running" =>
            \A w \in Workers :
                /\ workers[w].phase = "calling" => ENABLED OracleReturns(w)
                /\ workers[w].phase = "sleeping" => ENABLED TimerFires(w))
    /\ (mainpc = "running") ~> (mainpc \in {"writeJsonl", "aborted"})

\* a run that has ended after every job took all its attempts
C21_Witness ==
    /\ mainpc = "writeJsonl"
    /\ Len(jobs) >= 2
    /\ calls = MAX_ATTEMPTS * Len(jobs)

\* the kinds of artifact written so far for partition p
KindsWritten(p) == {a.kind : a \in {b \in artifacts : b.partition = partitions[p]}}

\* C22: while main is at partition part, both artifacts of every earlier
\* partition are written and none of a later one, and the jobs at hand are
\* all of partition part; an abort is final: the position, the jobs and the
\* artifacts stay as they are, so no later partition is built and what was
\* written remains; no artifact is ever taken back.
C22_PartitionsInSequence ==
    /\ [](mainpc # "done" =>
            /\ \A p \in 1..(part - 1) : KindsWritten(p) = {"full", "lora"}
            /\ \A p \in (part + 1)..Len(partitions) : KindsWritten(p) = {}
            /\ \A k \in 1..Len(jobs) : jobs[k].partition = partitions[part])
    /\ [](mainpc \in {"build", "running", "writeJsonl", "aborted"} =>
            KindsWritten(part) = {})
    /\ [][mainpc = "aborted" => UNCHANGED <<mainpc, part, jobs, artifacts>>]_vars
    /\ [][artifacts \subseteq artifacts']_vars

\* the second partition has aborted with jobs yet to claim; the artifacts of
\* the first are in place
C22_Witness ==
    /\ mainpc = "aborted"
    /\ part = 2
    /\ pointer < Len(jobs)
    /\ KindsWritten(1) = {"full", "lora"}

\* JSON.parse accepts the content of the json-labelled fenced block of a text
FencedParses(content) == content.hasFence /\ content.fenced # JInvalid

\* JSON.parse accepts the whole text
WholeParses(content) == content.whole # JInvalid

\* C23: extractJson throws only on a text of which neither the content of a
\* json-labelled fenced block nor the whole is valid JSON, and callGpt throws
\* only on a failed request or a response without textual content.
C23_ExtractionFailsOnlyWithoutJson ==
    /\ gen.threwAt = "extractJson" =>
          ~FencedParses(gen.content) /\ ~WholeParses(gen.content)
    /\ gen.threwAt = "callGpt" =>
          gen.response.status # "ok" \/ gen.response.content.type # "text"

\* sub occurs in s
Occurs(sub, s) == \E i \in 0..(Len(s) - Len(sub)) : SubSeq(s, i + 1, i + Len(sub)) = sub

\* main has assembled the row of the job's result
RowBuilt == gen.pc = "row"

\* the ledger turn of a row with the one task {id: task-1, summary: s, last_update: u},
\* character by character
OneTaskLedger ==
    <<"#", "#", " ", "O", "n", "g", "o", "i", "n", "g", " ", "t", "a", "s", "k", "s", ":",
      "\n", "[", "\n", " ", " ", "{", "\n", " ", " ", " ", " ", "\"", "i", "d", "\"", ":",
      " ", "\"", "t", "a", "s", "k", "-", "1", "\"", ",", "\n", " ", " ", " ", " ", "\"",
      "s", "u", "m", "m", "a", "r", "y", "\"", ":", " ", "\"", "s", "\"", ",", "\n", " ",
      " ", " ", " ", "\"", "l", "a", "s", "t", "_", "u", "p", "d", "a", "t", "e", "\"",
      ":", " ", "\"", "u", "\"", "\n", " ", " ", "}", "\n", "]">>

\* C25: for every validated result, the row buildDatasetRow yields has exactly four
\* turns, in the order system (developer prompt), system (header and serialization of
\* the tasks), user (user text), assistant (final); the first three carry no thinking,
\* the assistant's thinking is the reasoning; tasks, user, reasoning and final of the
\* row are those of the result.
C25_RowHasFourTurns ==
    RowBuilt =>
        LET row == gen.row
            raw == gen.result
            m == row.messages
        IN  /\ Len(m) = 4
            /\ [i \in 1..4 |-> m[i].role] = <<"system", "system", "user", "assistant">>
            /\ m[1].content = DEVELOPERS_PROMPT /\ row.developer = m[1].content
            /\ m[2].content = LedgerHeader \o StringifyTasks(raw.tasks)
            /\ \A k \in 1..Len(raw.tasks) : Occurs(Quote(raw.tasks[k].id), m[2].content)
            /\ raw.tasks = <<[id |-> Task1, summary |-> <<"s">>, last_update |-> <<"u">>]>>
                  => m[2].content = OneTaskLedger
            /\ m[3].content = raw.user
            /\ m[4].content = raw.final
            /\ \A i \in 1..3 : m[i].thinking = JNull
            /\ m[4].thinking = JStr(raw.reasoning) /\ raw.reasoning # <<>>
            /\ row.tasks = raw.tasks
            /\ row.user = raw.user
            /\ row.reasoning = raw.reasoning
            /\ row.final = raw.final

\* the row of the one-task result is built, its reasoning on the assistant's turn
C25_Witness ==
    /\ RowBuilt
    /\ gen.row.messages[2].content = OneTaskLedger
    /\ gen.row.messages[4].thinking = JStr(<<"-", " ", "r">>)

\* the roles of msgs from the k-th on, each run of equal roles counted once
RECURSIVE CollapsedRoles(_, _)
CollapsedRoles(msgs, k) ==
    IF k > Len(msgs) THEN <<>>
    ELSE IF k > 1 /\ msgs[k].role = msgs[k - 1].role THEN CollapsedRoles(msgs, k + 1)
    ELSE <<msgs[k].role>> \o CollapsedRoles(msgs, k + 1)

RolesOf(msgs) == [k \in 1..Len(msgs) |-> msgs[k].role]

\* C24: what mergeMessages returns has no two adjacent turns of one role, and its
\* roles are those of the input with every run of equal roles collapsed to one; for
\* the four messages of an assembled row it returns three turns, system, user and
\* assistant, the system turn holding the developer prompt and the task ledger
\* joined by a newline, the user turn as it was, the assistant turn with its content
\* and its thinking.
C24_RunsCollapsed ==
    passes >= 1 =>
        /\ \A k \in 1..(Len(merged) - 1) : merged[k].role # merged[k + 1].role
        /\ RolesOf(merged) = CollapsedRoles(messages, 1)
        /\ messages \in AssembledMessages =>
              /\ Len(merged) = 3
              /\ RolesOf(merged) = <<"system", "user", "assistant">>
              /\ merged[1].content = messages[1].content \o <<"\n">> \o messages[2].content
              /\ merged[1].thinking = JNull
              /\ merged[2].content = messages[3].content
              /\ merged[2].thinking = JNull
              /\ merged[3].content = messages[4].content
              /\ merged[3].thinking = messages[4].thinking
              /\ merged[3].thinking # JNull

\* the messages of an assembled row of two tasks, merged into three turns
C24_Witness ==
    /\ passes = 1
    /\ messages \in AssembledMessages
    /\ Len(messages) = 4
    /\ Len(merged) = 3
    /\ Occurs(Quote(Task2), merged[1].content)

\* C26: computing the merged messages of a row leaves the row's messages as they
\* were: no step of mergeMessages, on the row or on its own result, changes the
\* content, the role or the thinking of a turn of its input.
C26_InputUnchanged ==
    [][/\ Len(messages') = Len(messages)
       /\ \A k \in 1..Len(messages) :
             /\ messages'[k].content = messages[k].content
             /\ messages'[k].role = messages[k].role
             /\ messages'[k].thinking = messages[k].thinking]_vars

\* three messages of one role were joined into one turn, with the thinking of two
C26_Witness ==
    /\ passes = 1
    /\ Len(messages) = 3
    /\ Len(merged) = 1
    /\ merged[1].thinking = JStr(<<"t", "\n", "t">>)
    /\ messages[1].content = <<"a", " ">>

\* the verb of a final command: what stands before its first parenthesis
Verb(final) ==
    IF IndexOf(final, "(") = -1 THEN final ELSE Slice(final, 0, IndexOf(final, "("))

\* the name of an action kind, in characters
ActionName(action) ==
    CASE action = "reply" -> Slice(ReplyPrefix, 0, -1)
      [] action = "start_task" -> Slice(StartTaskPrefix, 0, -1)
      [] action = "update_task" -> Slice(UpdateTaskPrefix, 0, -1)
      [] action = "cancel_task" -> Slice(CancelTaskPrefix, 0, -1)
      [] action = "noop" -> NoopLiteral

\* C27: in the row of every stored result, the final of a noop job is the literal
\* noop, the final of a reply job starts with `reply(` and ends with `)`, the final
\* of a start_task job starts with `start_task(` and ends with `)`, and the verb of
\* every final is the action of its job; the assistant's turn holds the same final.
C27_FinalMatchesAction ==
    \A i \in Indices :
        results[i] # Hole =>
            LET row == buildDatasetRow(results[i])
                action == JobOf(i).action
            IN  /\ row.final = results[i].final
                /\ row.messages[4].content = row.final
                /\ action = "noop" => row.final = NoopLiteral
                /\ action = "reply" =>
                      StartsWith(row.final, ReplyPrefix) /\ EndsWith(row.final, CloseParen)
                /\ action = "start_task" =>
                      StartsWith(row.final, StartTaskPrefix) /\ EndsWith(row.final, CloseParen)
                /\ Verb(row.final) = ActionName(action)

\* the results of a noop job, a reply job and a start_task job are ready to be written
C27_Witness ==
    /\ mainpc = "writeJsonl"
    /\ \A a \in {"noop", "reply", "start_task"} :
          \E i \in Indices : results[i] # Hole /\ JobOf(i).action = a

\* --rows=r with a positive number r
PositiveOverride == argv.override /\ argv.finite /\ argv.value > 0

\* the jobs of one action kind among the jobs built
JobsFor(a) == {k \in 1..Len(jobs) : jobs[k].action = a}

\* C28: with --rows=r, r positive, the configuration is the one partition custom
\* whose count per action is the integer part of r / 5; the jobs built are five times
\* that many: no more than r, fewer than r by less than five, the same number for
\* every action kind; they are all the jobs of the invocation.
C28_OverrideJobCount ==
    PositiveOverride =>
        /\ partitions # <<>> =>
              /\ Len(partitions) = 1
              /\ partitions[1].name = "custom"
              /\ partitions[1].perAction = argv.value \div Len(Actions)
              /\ partitions[1].perAction * Len(Actions) <= argv.value
              /\ (partitions[1].perAction + 1) * Len(Actions) > argv.value
        /\ jobs # <<>> =>
              /\ Len(jobs) = Len(Actions) * partitions[1].perAction
              /\ Len(jobs) <= argv.value
              /\ argv.value - Len(jobs) < Len(Actions)
              /\ \A a \in ActionKind : Cardinality(JobsFor(a)) = partitions[1].perAction
        /\ Len(issued) <= argv.value
        /\ mainpc \in {"built", "done"} =>
              /\ argv.value - Len(issued) < Len(Actions)
              /\ Len(issued) % Len(Actions) = 0

\* --rows=13: ten jobs, two of each kind, three rows short of the request
C28_Witness ==
    /\ PositiveOverride
    /\ argv.value = 13
    /\ mainpc = "built"
    /\ Len(jobs) = 10
    /\ Cardinality(JobsFor("noop")) = 2

=============================================================================
